---- MODULE Spec2Model ----
(***************************************************************************)
(* Model of the mockium rule-matching and response-rendering engine:       *)
(* the comparer, the placeholder grammar, the facet matchers, the request  *)
(* matcher, the response builder and the HTTP handler that composes them.  *)
(*                                                                         *)
(* Go values of type `any` are tagged records; Go strings are TLA+         *)
(* strings; a map[string]any is a function whose domain is a set of        *)
(* strings.  The request body stream is the string of bytes not yet read.  *)
(***************************************************************************)
EXTENDS Integers, Sequences, FiniteSets, TLC

(***************************************************************************)
(* Values of type `any`                                                    *)
(***************************************************************************)
VStr(s) == [t |-> "str", s |-> s]
\* an int64 whose value is h * 2^53 + n, with 0 <= n < 2^53 when h = 1
VInt(n) == [t |-> "int", h |-> 0, n |-> n]
VIntHi(n) == [t |-> "int", h |-> 1, n |-> n]
\* a float64 whose value is h * 2^53 + m / 10; from 2^53 up the float64
\* values are the even integers, so m is a multiple of 20 when h = 1
VFlt(m) == [t |-> "float", h |-> 0, m |-> m]
VFltHi(m) == [t |-> "float", h |-> 1, m |-> m]
VBool(b) == [t |-> "bool", b |-> b]
VRe(p) == [t |-> "re", p |-> p]
VMap(f) == [t |-> "map", f |-> f]
VList(q) == [t |-> "list", q |-> q]
Nil == [t |-> "nil"]

EmptyMap == [k \in {} |-> Nil]

\* map literals with one, two and three entries
M1(k, v) == [x \in {k} |-> v]
M2(k1, v1, k2, v2) == [x \in {k1, k2} |-> IF x = k1 THEN v1 ELSE v2]
Merge(f, g) == [x \in (DOMAIN f) \cup (DOMAIN g) |-> IF x \in DOMAIN f THEN f[x] ELSE g[x]]

(***************************************************************************)
(* Characters and strings                                                  *)
(***************************************************************************)
Upper == {"A", "B", "C", "D", "E", "F", "G", "H", "I", "J", "K", "L", "M",
          "N", "O", "P", "Q", "R", "S", "T", "U", "V", "W", "X", "Y", "Z"}
Lower == {"a", "b", "c", "d", "e", "f", "g", "h", "i", "j", "k", "l", "m",
          "n", "o", "p", "q", "r", "s", "t", "u", "v", "w", "x", "y", "z"}
Digit == {"0", "1", "2", "3", "4", "5", "6", "7", "8", "9"}

CharAt(s, i) == SubSeq(s, i, i)
HasPrefix(s, p) == Len(s) >= Len(p) /\ SubSeq(s, 1, Len(p)) = p
HasSuffix(s, p) == Len(s) >= Len(p) /\ SubSeq(s, Len(s) - Len(p) + 1, Len(s)) = p
AllIn(s, cs) == \A i \in 1..Len(s) : CharAt(s, i) \in cs

(***************************************************************************)
(* constants.go                                                            *)
(***************************************************************************)
RegexpValuePlaceholder == "regexp"
AnyValuePlaceholder == "${...}"
ContentTypeApplicationJSON == "application/json"
ContentTypeFormURLEncoded == "application/x-www-form-urlencoded"
Facets == {"headers", "query", "path", "form", "body"}

\* "^\$\{(regexp):(.*)\}$": the submatches <<whole, "regexp", pattern>>, or
\* <<>> when the string does not match
RegexpRequestValuePlaceholder(s) ==
    LET pre == "${" \o RegexpValuePlaceholder \o ":"
    IN IF HasPrefix(s, pre) /\ HasSuffix(s, "}") /\ Len(s) >= Len(pre) + 1
       THEN <<s, RegexpValuePlaceholder, SubSeq(s, Len(pre) + 1, Len(s) - 1)>>
       ELSE <<>>

\* "^\$\{(req)\.(headers|query|path|form|body):([a-zA-Z0-9_-]+|\*)\}$": the
\* submatches <<whole, "req", facet, name>>, or <<>>
RegexpResponseValuePlaceholder(s) ==
    LET Pre(f) == "${req." \o f \o ":"
        NameOf(f) == SubSeq(s, Len(Pre(f)) + 1, Len(s) - 1)
        Fits(f) == /\ HasPrefix(s, Pre(f))
                   /\ HasSuffix(s, "}")
                   /\ Len(s) >= Len(Pre(f)) + 2
                   /\ \/ NameOf(f) = "*"
                      \/ AllIn(NameOf(f), Upper \cup Lower \cup Digit \cup {"_", "-"})
    IN IF \E f \in Facets : Fits(f)
       THEN LET f == CHOOSE g \in Facets : Fits(g) IN <<s, "req", f, NameOf(f)>>
       ELSE <<>>

(***************************************************************************)
(* regexp: the patterns the rules of this model use                        *)
(***************************************************************************)
\* regexp.Compile fails on a character class that is never closed
CompileOk(p) ==
    \A i \in 1..Len(p) : CharAt(p, i) = "[" => \E j \in (i + 1)..Len(p) : CharAt(p, j) = "]"

\* (*Regexp).MatchString for the patterns in use
MatchString(p, s) ==
    CASE p = "^[A-Z][a-z]+$" -> Len(s) >= 2 /\ CharAt(s, 1) \in Upper /\ AllIn(Tail(s), Lower)
      [] p = "^[0-9]+$" -> Len(s) >= 1 /\ AllIn(s, Digit)
      [] p = "^[a-z]+$" -> Len(s) >= 1 /\ AllIn(s, Lower)
      [] p = "^[a-zA-Z0-9]{8,}$" -> Len(s) >= 8 /\ AllIn(s, Upper \cup Lower \cup Digit)
      [] p = "json" -> \E i \in 1..(Len(s) - 3) : SubSeq(s, i, i + 3) = "json"
      [] p = ".*" -> TRUE
      [] OTHER -> FALSE

(***************************************************************************)
(* comparer.go                                                             *)
(***************************************************************************)
\* float64(x) of an int64: exact below 2^53; from 2^53 up the nearest even
\* integer, a tie going to the one with the even mantissa
Float64OfInt(x) ==
    IF x.h = 0 THEN [h |-> 0, m |-> x.n * 10]
    ELSE LET q == x.n \div 2
         IN [h |-> 1,
             m |-> 10 * (IF x.n % 2 = 0 THEN x.n
                         ELSE IF q % 2 = 0 THEN 2 * q ELSE 2 * q + 2)]

\* the float64 value of a float
Float64Of(x) == [h |-> x.h, m |-> x.m]

RECURSIVE Compare(_, _)
compareSlices(expected, actual) ==
    IF Len(expected) # Len(actual) THEN FALSE
    ELSE \A i \in 1..Len(expected) : Compare(expected[i], actual[i])

\* compareMaps that also wants every key of actual in expected
compareMaps_BothWays(expected, actual) ==
    /\ DOMAIN expected = DOMAIN actual
    /\ \A key \in DOMAIN expected : Compare(expected[key], actual[key])

compareMaps(expected, actual) ==
    \A key \in DOMAIN expected :
        key \in DOMAIN actual /\ Compare(expected[key], actual[key])

\* the final `expected == actual` on interface values: same dynamic type and
\* same value
IfaceEq(expected, actual) ==
    /\ expected.t = actual.t
    /\ CASE expected.t = "str" -> expected.s = actual.s
         [] expected.t = "int" -> expected.n = actual.n /\ expected.h = actual.h
         [] expected.t = "float" -> Float64Of(expected) = Float64Of(actual)
         [] expected.t = "bool" -> expected.b = actual.b
         [] expected.t = "nil" -> TRUE
         [] OTHER -> FALSE

Compare(expected, actual) ==
    CASE expected.t = "re" ->
            IF actual.t = "str" THEN MatchString(expected.p, actual.s) ELSE FALSE
      [] expected.t = "str" ->
            IF expected.s = AnyValuePlaceholder THEN TRUE
            ELSE actual.t = "str" /\ expected.s = actual.s
      [] expected.t = "list" ->
            IF actual.t = "list" THEN compareSlices(expected.q, actual.q) ELSE FALSE
      [] expected.t = "map" ->
            IF actual.t = "map" THEN compareMaps(expected.f, actual.f) ELSE FALSE
      [] expected.t = "int" ->
            CASE actual.t = "int" -> expected.n = actual.n /\ expected.h = actual.h
              [] actual.t = "float" -> Float64OfInt(expected) = Float64Of(actual)
              [] OTHER -> IfaceEq(expected, actual)
      [] expected.t = "float" ->
            CASE actual.t = "int" -> Float64Of(expected) = Float64OfInt(actual)
              [] actual.t = "float" -> Float64Of(expected) = Float64Of(actual)
              [] OTHER -> IfaceEq(expected, actual)
      [] OTHER -> IfaceEq(expected, actual)

(***************************************************************************)
(* RequestMatcher.precompileRegexp                                         *)
(***************************************************************************)
RECURSIVE precompileRegexp(_)
\* precompileRegexp where a pattern that does not compile becomes the wildcard
precompileValue_BadToWildcard(value) ==
    CASE value.t = "str" ->
            LET placeholders == RegexpRequestValuePlaceholder(value.s)
            IN IF placeholders # <<>> /\ placeholders[2] = RegexpValuePlaceholder
               THEN IF CompileOk(placeholders[3]) THEN VRe(placeholders[3])
                    ELSE VStr(AnyValuePlaceholder)
               ELSE value
      [] value.t = "map" -> VMap(precompileRegexp(value.f))
      [] OTHER -> value

precompileValue(value) ==
    CASE value.t = "str" ->
            LET placeholders == RegexpRequestValuePlaceholder(value.s)
            IN IF placeholders # <<>> /\ placeholders[2] = RegexpValuePlaceholder
               THEN IF CompileOk(placeholders[3]) THEN VRe(placeholders[3]) ELSE value
               ELSE value
      [] value.t = "map" -> VMap(precompileRegexp(value.f))
      [] OTHER -> value

\* a nil map and an empty map are both the empty function
precompileRegexp(source) ==
    IF DOMAIN source = {} THEN EmptyMap
    ELSE [key \in DOMAIN source |-> precompileValue(source[key])]

(***************************************************************************)
(* net/http: the request                                                   *)
(***************************************************************************)
None == [ok |-> FALSE]
Some(v) == [ok |-> TRUE, v |-> v]

UpperSeq == "ABCDEFGHIJKLMNOPQRSTUVWXYZ"
LowerSeq == "abcdefghijklmnopqrstuvwxyz"
ToUpper(c) == IF c \in Lower THEN CharAt(UpperSeq, CHOOSE i \in 1..26 : CharAt(LowerSeq, i) = c) ELSE c
ToLower(c) == IF c \in Upper THEN CharAt(LowerSeq, CHOOSE i \in 1..26 : CharAt(UpperSeq, i) = c) ELSE c

\* textproto.CanonicalMIMEHeaderKey: upper case at the start and after "-",
\* lower case elsewhere
RECURSIVE CanonFrom(_, _)
CanonFrom(s, i) ==
    IF i > Len(s) THEN ""
    ELSE (IF i = 1 \/ CharAt(s, i - 1) = "-" THEN ToUpper(CharAt(s, i)) ELSE ToLower(CharAt(s, i)))
         \o CanonFrom(s, i + 1)
CanonicalMIMEHeaderKey(s) == CanonFrom(s, 1)

\* map lookups that answer "" for an absent name
Get(m, key) == IF key \in DOMAIN m THEN m[key] ELSE ""
HeaderGet(req, key) == Get(req.header, CanonicalMIMEHeaderKey(key))
QueryGet(req, key) == Get(req.query, key)
PathValue(req, key) == Get(req.pathValue, key)

\* the bodies the requests of this model carry
BodyLogin == "{\"username\":\"test\",\"password\":\"password\"}"
BodyEmptyName == "{\"username\":\"\"}"
BodyNoName == "{\"password\":\"password\"}"
BodyBadJSON == "invalid json"
BodyForm == "username=testuser&password=secret123"
BodyFormNoUser == "password=secret123"
BodyProfile == "{\"user\":{\"name\":\"Alice\"},\"tags\":[\"abc\"],\"age\":30}"
BodyFormBadEscape == "username=testuser&password=%zz"

\* json.Unmarshal(body, &map[string]any{}) on the bodies above
JsonUnmarshal(b) ==
    CASE b = BodyLogin -> [err |-> FALSE, v |-> M2("username", VStr("test"), "password", VStr("password"))]
      [] b = BodyEmptyName -> [err |-> FALSE, v |-> M1("username", VStr(""))]
      [] b = BodyNoName -> [err |-> FALSE, v |-> M1("password", VStr("password"))]
      [] b = BodyProfile ->
            [err |-> FALSE,
             v |-> Merge(M2("user", VMap(M1("name", VStr("Alice"))), "tags", VList(<<VStr("abc")>>)),
                         M1("age", VFlt(300)))]
      [] OTHER -> [err |-> TRUE, v |-> EmptyMap]

\* the message of the json.Unmarshal error
JsonError(b) == IF b = "" THEN "unexpected end of JSON input" ELSE "invalid character"

\* url.ParseQuery on the bodies above: the values parsed before and after a
\* bad escape are kept and the first error is returned with them
ParseQuery(b) ==
    CASE b = BodyForm -> [err |-> FALSE, v |-> M2("username", "testuser", "password", "secret123")]
      [] b = BodyFormNoUser -> [err |-> FALSE, v |-> M1("password", "secret123")]
      [] b = BodyFormBadEscape -> [err |-> TRUE, v |-> M1("username", "testuser")]
      [] b = "" -> [err |-> FALSE, v |-> EmptyMap]
      [] OTHER -> [err |-> FALSE, v |-> M1(b, "")]

\* io.ReadAll(req.Body): the bytes left in the stream, which is then empty
ReadAll(req) == [data |-> req.body, req |-> [req EXCEPT !.body = "", !.reads = @ + 1]]

\* (*Request).ParseForm: the post form is parsed once, from the body of a
\* POST, PUT or PATCH request whose media type is the URL-encoded form type;
\* the form is the post form laid over the URL query
ParseForm(req) ==
    LET readsBody == /\ req.method \in {"POST", "PUT", "PATCH"}
                     /\ HeaderGet(req, "Content-Type") = ContentTypeFormURLEncoded
        rd == ReadAll(req)
        pq == ParseQuery(rd.data)
        r1 == IF req.postForm.ok THEN req
              ELSE IF readsBody THEN [rd.req EXCEPT !.postForm = Some(pq.v)]
              ELSE [req EXCEPT !.postForm = Some(EmptyMap)]
        r2 == IF r1.form.ok THEN r1
              ELSE [r1 EXCEPT !.form = Some(Merge(r1.postForm.v, r1.query))]
    IN [err |-> (~req.postForm.ok) /\ readsBody /\ pq.err, req |-> r2]

\* (*Request).FormValue
FormValue(req, key) ==
    LET pf == IF req.form.ok THEN [err |-> FALSE, req |-> req] ELSE ParseForm(req)
    IN [val |-> Get(pf.req.form.v, key), req |-> pf.req]

(***************************************************************************)
(* Facet matchers                                                          *)
(***************************************************************************)
\* the loops below range over a Go map, in an order the runtime chooses; a
\* facet matcher has no effect and answers the conjunction in any order
\* the headers matcher without the test for an empty value
HeadersMatcher_Match_NoPresence(matchHeaders, req) ==
    \A key \in DOMAIN matchHeaders :
        Compare(matchHeaders[key], VStr(HeaderGet(req, key)))

HeadersMatcher_Match(matchHeaders, req) ==
    \A key \in DOMAIN matchHeaders :
        LET actual == HeaderGet(req, key)
        IN ~(actual = "" \/ ~Compare(matchHeaders[key], VStr(actual)))

QueryMatcher_Match(matchQuery, req) ==
    \A key \in DOMAIN matchQuery :
        LET actual == QueryGet(req, key)
        IN ~(actual = "" \/ ~Compare(matchQuery[key], VStr(actual)))

PathMatcher_Match(matchPath, req) ==
    \A key \in DOMAIN matchPath :
        LET actual == PathValue(req, key)
        IN ~(actual = "" \/ ~Compare(matchPath[key], VStr(actual)))

\* BodyMatcher.compare: the answer and the request as the call leaves it
BodyMatcher_compare(matchBody, headerVal, req) ==
    IF req.ctx.ok
    THEN [res |-> Compare(VMap(matchBody), VMap(req.ctx.v)), req |-> req]
    ELSE CASE headerVal = ContentTypeFormURLEncoded ->
                LET pf == IF req.postForm.ok THEN [err |-> FALSE, req |-> req] ELSE ParseForm(req)
                    cached == [key \in DOMAIN pf.req.postForm.v |-> VStr(pf.req.postForm.v[key])]
                IN IF pf.err THEN [res |-> FALSE, req |-> pf.req]
                   ELSE [res |-> Compare(VMap(matchBody), VMap(cached)),
                         req |-> [pf.req EXCEPT !.ctx = Some(cached)]]
           [] headerVal = ContentTypeApplicationJSON ->
                LET rd == ReadAll(req)
                    js == JsonUnmarshal(rd.data)
                IN IF js.err THEN [res |-> FALSE, req |-> rd.req]
                   ELSE [res |-> Compare(VMap(matchBody), VMap(js.v)),
                         req |-> [rd.req EXCEPT !.ctx = Some(js.v)]]
           [] OTHER -> [res |-> FALSE, req |-> req]

\* the body matcher without the test against the declared Content-Type
BodyMatcher_Match_AnyType(matchHeaders, matchBody, req) ==
    LET actualContentType == HeaderGet(req, "Content-Type")
    IN IF actualContentType # ""
       THEN BodyMatcher_compare(matchBody, actualContentType, req)
       ELSE [res |-> FALSE, req |-> req]

BodyMatcher_Match(matchHeaders, matchBody, req) ==
    LET actualContentType == HeaderGet(req, "Content-Type")
        ok == "Content-Type" \in DOMAIN matchHeaders
        expectedContentType == IF ok THEN matchHeaders["Content-Type"] ELSE Nil
        isStr == expectedContentType.t = "str"
    IN IF ok /\ ~(isStr /\ expectedContentType.s = "") /\ actualContentType = ""
       THEN [res |-> FALSE, req |-> req]
       ELSE IF isStr /\ expectedContentType.s # ""
       THEN IF actualContentType = expectedContentType.s
            THEN BodyMatcher_compare(matchBody, actualContentType, req)
            ELSE [res |-> FALSE, req |-> req]
       ELSE IF actualContentType # ""
       THEN BodyMatcher_compare(matchBody, actualContentType, req)
       ELSE [res |-> FALSE, req |-> req]

(***************************************************************************)
(* Rule files and their decoding (model.MatchRequestTemplate,              *)
(* model.SetResponseTemplate)                                              *)
(***************************************************************************)
\* a JSON object of a rule file is a function from its keys to their values;
\* encoding/json fills a struct field from the key its tag names and drops
\* every other key
Field(obj, key) == IF key \in DOMAIN obj THEN obj[key] ELSE EmptyMap

UnmarshalMatchRequest(obj) ==
    [MustMethod |-> IF "MustMethod" \in DOMAIN obj THEN obj["MustMethod"] ELSE "",
     MustHeaders |-> Field(obj, "MustHeaders"),
     MustPathParameters |-> Field(obj, "MustPathParameters"),
     MustQueryParameters |-> Field(obj, "MustQueryParameters"),
     MustBody |-> Field(obj, "MustBodyParameters")]

(***************************************************************************)
(* RequestMatcher                                                          *)
(***************************************************************************)
PM(kind, h, m) == [kind |-> kind, h |-> h, m |-> m]

\* the constructor without the query matcher
NewRequestMatcher_NoQuery(templateRequest) ==
    (IF DOMAIN templateRequest.MustPathParameters # {}
     THEN <<PM("path", EmptyMap, precompileRegexp(templateRequest.MustPathParameters))>>
     ELSE <<>>)
    \o (IF DOMAIN templateRequest.MustHeaders # {}
        THEN <<PM("headers", EmptyMap, precompileRegexp(templateRequest.MustHeaders))>>
        ELSE <<>>)
    \o (IF DOMAIN templateRequest.MustBody # {}
        THEN <<PM("body", precompileRegexp(templateRequest.MustHeaders),
                  precompileRegexp(templateRequest.MustBody))>>
        ELSE <<>>)

\* the constructor with the body matcher appended first
NewRequestMatcher_BodyFirst(templateRequest) ==
    (IF DOMAIN templateRequest.MustBody # {}
     THEN <<PM("body", precompileRegexp(templateRequest.MustHeaders),
               precompileRegexp(templateRequest.MustBody))>>
     ELSE <<>>)
    \o (IF DOMAIN templateRequest.MustPathParameters # {}
        THEN <<PM("path", EmptyMap, precompileRegexp(templateRequest.MustPathParameters))>>
        ELSE <<>>)
    \o (IF DOMAIN templateRequest.MustHeaders # {}
        THEN <<PM("headers", EmptyMap, precompileRegexp(templateRequest.MustHeaders))>>
        ELSE <<>>)
    \o (IF DOMAIN templateRequest.MustQueryParameters # {}
        THEN <<PM("query", EmptyMap, precompileRegexp(templateRequest.MustQueryParameters))>>
        ELSE <<>>)

\* NewRequestMatcher: the facet matchers of the rule, in the order of the
\* appends
NewRequestMatcher(templateRequest) ==
    LET matchHeaders == IF DOMAIN templateRequest.MustHeaders # {}
                        THEN precompileRegexp(templateRequest.MustHeaders)
                        ELSE EmptyMap
    IN (IF DOMAIN templateRequest.MustPathParameters # {}
        THEN <<PM("path", EmptyMap, precompileRegexp(templateRequest.MustPathParameters))>>
        ELSE <<>>)
       \o (IF DOMAIN templateRequest.MustHeaders # {}
           THEN <<PM("headers", EmptyMap, matchHeaders)>>
           ELSE <<>>)
       \o (IF DOMAIN templateRequest.MustBody # {}
           THEN <<PM("body", matchHeaders, precompileRegexp(templateRequest.MustBody))>>
           ELSE <<>>)
       \o (IF DOMAIN templateRequest.MustQueryParameters # {}
           THEN <<PM("query", EmptyMap, precompileRegexp(templateRequest.MustQueryParameters))>>
           ELSE <<>>)
       \o (IF DOMAIN templateRequest.MustPathParameters # {}
           THEN <<PM("path", EmptyMap, precompileRegexp(templateRequest.MustPathParameters))>>
           ELSE <<>>)

\* one facet matcher on the request
FacetMatch(pm, req) ==
    CASE pm.kind = "path" -> [res |-> PathMatcher_Match(pm.m, req), req |-> req]
      [] pm.kind = "headers" -> [res |-> HeadersMatcher_Match(pm.m, req), req |-> req]
      [] pm.kind = "query" -> [res |-> QueryMatcher_Match(pm.m, req), req |-> req]
      [] pm.kind = "body" -> BodyMatcher_Match(pm.h, pm.m, req)

\* RequestMatcher.Match: the loop from matcher i on; trace lists the facet
\* matchers that ran
RECURSIVE MatchFrom(_, _, _, _)
MatchFrom(parameterMatchers, i, req, trace) ==
    IF i > Len(parameterMatchers) THEN [res |-> TRUE, req |-> req, trace |-> trace]
    ELSE LET m == FacetMatch(parameterMatchers[i], req)
             tr == Append(trace, parameterMatchers[i].kind)
         IN IF ~m.res THEN [res |-> FALSE, req |-> m.req, trace |-> tr]
            ELSE MatchFrom(parameterMatchers, i + 1, m.req, tr)

RequestMatcher_Match(parameterMatchers, req) == MatchFrom(parameterMatchers, 1, req, <<>>)

(***************************************************************************)
(* ResponseBuilder                                                         *)
(***************************************************************************)
\* a nil map[string]any held in an `any`
NilMap == [t |-> "nilmap"]

UnmarshalSetResponse(obj) ==
    [SetStatus |-> IF "SeStatus" \in DOMAIN obj THEN obj["SeStatus"] ELSE 0,
     SetHeaders |-> Field(obj, "SetHeaders"),
     SetBody |-> IF "SetBody" \in DOMAIN obj THEN Some(obj["SetBody"]) ELSE None,
     SetFile |-> IF "SetFile" \in DOMAIN obj THEN obj["SetFile"] ELSE ""]

\* the files os.Open finds
Files == {"/srv/report.pdf"}

\* ResponseBuilder.valueByPlacehoders
valueByPlacehoders(placeholders, req) ==
    IF Len(placeholders) < 4 THEN [err |-> "invalid placeholders", val |-> Nil, req |-> req]
    ELSE CASE placeholders[3] = "headers" ->
                [err |-> "", val |-> VStr(HeaderGet(req, placeholders[4])), req |-> req]
           [] placeholders[3] = "query" ->
                [err |-> "", val |-> VStr(QueryGet(req, placeholders[4])), req |-> req]
           [] placeholders[3] = "path" ->
                [err |-> "", val |-> VStr(Get(req.muxVars, placeholders[4])), req |-> req]
           [] placeholders[3] = "form" ->
                LET fv == FormValue(req, placeholders[4])
                IN [err |-> "", val |-> VStr(fv.val), req |-> fv.req]
           [] placeholders[3] = "body" ->
                LET rd == ReadAll(req)
                    js == JsonUnmarshal(rd.data)
                IN IF js.err THEN [err |-> JsonError(rd.data), val |-> Nil, req |-> rd.req]
                   ELSE [err |-> "",
                         val |-> IF placeholders[4] \in DOMAIN js.v THEN js.v[placeholders[4]] ELSE Nil,
                         req |-> rd.req]
           [] OTHER -> [err |-> "unexpected placeholder", val |-> Nil, req |-> req]

\* ResponseBuilder.build ranges over the template map in an order the runtime
\* chooses, and resolving a placeholder can consume the request body: the
\* operator answers the set of results over all orders.  A result is
\* [err, nil, v, req]: the error message or "", whether the map is nil, the
\* rendered map, the request as the call leaves it.
RECURSIVE build(_, _)
RECURSIVE buildFields(_, _, _, _)
buildField(fieldValue, req) ==
    CASE fieldValue.t = "str" ->
            LET placeholders == RegexpResponseValuePlaceholder(fieldValue.s)
            IN IF placeholders # <<>>
               THEN {valueByPlacehoders(<<placeholders[1], placeholders[2], placeholders[3], placeholders[4]>>, req)}
               ELSE {[err |-> "", val |-> fieldValue, req |-> req]}
      [] fieldValue.t = "map" ->
            {[err |-> b.err, val |-> IF b.nil THEN NilMap ELSE VMap(b.v), req |-> b.req] :
                b \in build(fieldValue.f, req)}
      [] OTHER -> {[err |-> "", val |-> fieldValue, req |-> req]}

buildFields(templResp, todo, response, req) ==
    IF todo = {} THEN {[err |-> "", nil |-> FALSE, v |-> response, req |-> req]}
    ELSE UNION {
           UNION {
             IF o.err # "" THEN {[err |-> o.err, nil |-> TRUE, v |-> EmptyMap, req |-> o.req]}
             ELSE buildFields(templResp, todo \ {filedName},
                              Merge(M1(filedName, o.val), response), o.req) :
             o \in buildField(templResp[filedName], req)} :
           filedName \in todo}

build(templResp, req) ==
    IF DOMAIN templResp = {} THEN {[err |-> "", nil |-> TRUE, v |-> EmptyMap, req |-> req]}
    ELSE buildFields(templResp, DOMAIN templResp, EmptyMap, req)

\* model.SetResponse
SetResponse(status, headers, body, file) ==
    [SetStatus |-> status, SetHeaders |-> headers, SetBody |-> body, SetFile |-> file]
NoResponse == SetResponse(0, EmptyMap, None, None)

\* ResponseBuilder.Build: the set of results [err, response, req]
ResponseBuilder_Build(templResp, req) ==
    IF templResp.SetBody.ok
    THEN {IF b.err # "" THEN [err |-> b.err, response |-> NoResponse, req |-> b.req]
          ELSE [err |-> "",
                response |-> SetResponse(templResp.SetStatus, templResp.SetHeaders,
                                         IF b.nil THEN None ELSE Some(b.v), None),
                req |-> b.req] :
          b \in build(templResp.SetBody.v, req)}
    ELSE IF templResp.SetFile # ""
    THEN IF templResp.SetFile \in Files
         THEN {[err |-> "",
                response |-> SetResponse(templResp.SetStatus, templResp.SetHeaders, None,
                                         Some(templResp.SetFile)),
                req |-> req]}
         ELSE {[err |-> "no such file or directory", response |-> NoResponse, req |-> req]}
    ELSE {[err |-> "", response |-> SetResponse(templResp.SetStatus, templResp.SetHeaders, None, None),
           req |-> req]}

(***************************************************************************)
(* Bounds                                                                  *)
(***************************************************************************)
\* requests one run of the server handles
MaxRequests == 2
\* direct calls of Match and Build on one request
MaxCalls == 3

(***************************************************************************)
(* The rule files (templates) and the requests of the model                *)
(***************************************************************************)
Handle(matchRequest, setResponse) == [MatchRequest |-> matchRequest, SetResponse |-> setResponse]

\* two GET rules that both accept ?page=1
TplOrder ==
    [Path |-> "/items",
     Handle |-> <<
        Handle(M2("MustMethod", "GET", "MustQueryParameters", M1("page", VStr("1"))),
               M1("SetBody", M1("rule", VStr("first")))),
        Handle(M1("MustMethod", "GET"),
               M1("SetBody", M1("rule", VStr("second"))))>>]

\* body conditions and a body placeholder
TplBody ==
    [Path |-> "/login",
     Handle |-> <<
        Handle(M2("MustMethod", "POST", "MustBodyParameters", M1("username", VStr("test"))),
               M2("SetHeaders", M1("X-Rule", "test"),
                  "SetBody", M2("authorized", VBool(TRUE), "username", VStr("${req.body:username}")))),
        Handle(M2("MustMethod", "POST", "MustBodyParameters", M1("username", VStr(AnyValuePlaceholder))),
               M2("SetHeaders", M1("X-Rule", "any"), "SetBody", M1("authorized", VBool(FALSE))))>>]

\* form conditions under the documented key
TplForm ==
    [Path |-> "/login",
     Handle |-> <<
        Handle(M2("MustMethod", "POST",
                  "MustFormParameters", M2("username", VStr("testuser"),
                                           "password", VStr("${regexp:^[a-zA-Z0-9]{8,}$}"))),
               M1("SetBody", M1("user", VStr("${req.form:username}"))))>>]

\* headers, body and query conditions together; a file response
TplFacets ==
    [Path |-> "/login",
     Handle |-> <<
        Handle(Merge(M2("MustMethod", "POST", "MustHeaders", M1("X-Request-Id", VStr(AnyValuePlaceholder))),
                     M2("MustBodyParameters", M1("password", VStr("${regexp:^[a-z]+$}")),
                        "MustQueryParameters", M1("page", VStr(AnyValuePlaceholder)))),
               M1("SetFile", "/srv/report.pdf")),
        Handle(Merge(M2("MustMethod", "POST", "MustHeaders", M1("Content-Type", VStr(ContentTypeApplicationJSON))),
                     M1("MustBodyParameters", M1("username", VStr("test")))),
               M1("SetHeaders", M1("X-Rule", "json")))>>]

\* a URL-encoded body matched through the body conditions
TplFormBody ==
    [Path |-> "/login",
     Handle |-> <<
        Handle(M2("MustMethod", "POST", "MustBodyParameters", M1("password", VStr("secret123"))),
               M1("SetBody", M1("rule", VStr("password")))),
        Handle(M2("MustMethod", "POST", "MustBodyParameters", M1("username", VStr("testuser"))),
               M1("SetBody", M1("user", VStr("${req.form:username}"))))>>]

\* a path variable, matched and rendered
TplPath ==
    [Path |-> "/items/{id}",
     Handle |-> <<
        Handle(Merge(M2("MustMethod", "GET", "MustPathParameters", M1("id", VStr("${regexp:^[0-9]+$}"))),
                     M1("MustQueryParameters", M1("page", VStr("1")))),
               M1("SetBody", M1("id", VStr("${req.path:id}")))),
        Handle(M2("MustMethod", "GET", "MustPathParameters", M1("id", VStr(AnyValuePlaceholder))),
               M1("SetFile", "/srv/missing.pdf"))>>]

\* a body without placeholders, and a body that echoes the query and a header
TplRender ==
    [Path |-> "/echo",
     Handle |-> <<
        Handle(M2("MustMethod", "GET", "MustQueryParameters", M1("page", VStr("1"))),
               M1("SetBody", Merge(M2("note", VStr("${req.unknown:param}"), "count", VInt(3)),
                                   Merge(M2("ok", VBool(TRUE), "meta", VMap(EmptyMap)),
                                         M1("nested", VMap(M2("name", VStr("x"),
                                                              "tags", VList(<<VStr("a")>>)))))))),
        Handle(M1("MustMethod", "GET"),
               M2("SetStatus", 201,
                  "SetBody", M2("page", VStr("${req.query:page}"),
                                "nested", VMap(M1("trace", VStr("${req.headers:X-Request-Id}"))))))>>]

\* a pattern that does not compile, and patterns inside a nested mapping and
\* inside a sequence
BadPattern == "${regexp:[a-z}"
TplRegexp ==
    [Path |-> "/profile",
     Handle |-> <<
        Handle(M2("MustMethod", "GET", "MustHeaders", M1("X-Token", VStr(BadPattern))),
               M1("SetBody", M1("rule", VStr("token")))),
        Handle(M2("MustMethod", "POST",
                  "MustBodyParameters",
                      Merge(M2("user", VMap(M1("name", VStr("${regexp:^[A-Z][a-z]+$}"))),
                               "tags", VList(<<VStr("${regexp:^[a-z]+$}")>>)),
                            M1("age", VFlt(300)))),
               M1("SetBody", M1("rule", VStr("profile"))))>>]

\* a rule without MustMethod beside a rule that declares GET
TplMethod ==
    [Path |-> "/items",
     Handle |-> <<
        Handle(M1("MustQueryParameters", M1("page", VStr("1"))),
               M1("SetBody", M1("rule", VStr("default")))),
        Handle(M2("MustMethod", "GET", "MustHeaders", M1("X-Token", VStr("abc"))),
               M1("SetBody", M1("rule", VStr("get"))))>>]

\* a response that declares a body and a file
TplBoth ==
    [Path |-> "/report",
     Handle |-> <<
        Handle(M1("MustMethod", "GET"),
               M2("SetBody", M1("rule", VStr("both")), "SetFile", "/srv/report.pdf"))>>]

\* the first example of the README: body conditions under the key MustBody
TplDocBody ==
    [Path |-> "/login",
     Handle |-> <<
        Handle(M2("MustMethod", "POST",
                  "MustBody", M2("username", VStr("test"), "password", VStr("password"))),
               M2("SetHeaders", M1("SetCookie", "X-Csrf-Token=cookie"),
                  "SetBody", M1("authorized", VBool(TRUE))))>>]

\* a Content-Type condition given as the wildcard and as a regular
\* expression, beside a body condition
TplContentType ==
    [Path |-> "/login",
     Handle |-> <<
        Handle(Merge(M2("MustMethod", "POST", "MustHeaders", M1("Content-Type", VStr(AnyValuePlaceholder))),
                     M1("MustBodyParameters", M1("username", VStr("test")))),
               M1("SetBody", M1("authorized", VBool(TRUE)))),
        Handle(Merge(M2("MustMethod", "POST", "MustHeaders", M1("Content-Type", VStr("${regexp:json}"))),
                     M1("MustBodyParameters", M1("username", VStr("test")))),
               M1("SetBody", M1("authorized", VBool(FALSE))))>>]

Templates ==
    <<TplOrder, TplBody, TplForm, TplFacets, TplFormBody, TplPath, TplRender, TplRegexp, TplMethod,
      TplBoth, TplDocBody, TplContentType>>

\* rule i of template t, decoded
MatchRequestOf(t, i) == UnmarshalMatchRequest(Templates[t].Handle[i].MatchRequest)
SetResponseOf(t, i) == UnmarshalSetResponse(Templates[t].Handle[i].SetResponse)
MatcherOf(t, i) == NewRequestMatcher(MatchRequestOf(t, i))
RuleIds(t) == 1..Len(Templates[t].Handle)

\* SetResponseTemplate.UnmarshalJSON: the error for a file beside a body
SetResponseTemplate_UnmarshalJSON(obj) ==
    LET inst == UnmarshalSetResponse(obj)
    IN inst.SetFile # "" /\ inst.SetBody.ok

\* TemplateBuilder.checkMethod
checkMethod(metod) == metod \in {"GET", "POST", "DELETE", "PATCH", "PUT"}

\* TemplateBuilder.validate: TRUE when it returns no error; the default
\* method goes to a copy of the handle and is lost
validate(t) ==
    \A i \in RuleIds(t) :
        /\ MatchRequestOf(t, i).MustMethod = "" \/ checkMethod(MatchRequestOf(t, i).MustMethod)
        /\ ~(SetResponseOf(t, i).SetBody.ok /\ SetResponseOf(t, i).SetFile # "")

\* TemplateBuilder.Build without the decoding error and without validate
TemplateBuilder_Build_Unchecked(t) == TRUE

\* TemplateBuilder.Build: TRUE when the rule file decodes and validates
TemplateBuilder_Build(t) ==
    /\ \A i \in RuleIds(t) : ~SetResponseTemplate_UnmarshalJSON(Templates[t].Handle[i].SetResponse)
    /\ validate(t)

\* the rule files the server starts with
Loaded == {t \in 1..Len(Templates) : TemplateBuilder_Build(t)}

Request(method, header, query, pathValue, muxVars, body) ==
    [method |-> method, header |-> header, query |-> query, pathValue |-> pathValue,
     muxVars |-> muxVars, body |-> body,
     postForm |-> None, form |-> None, ctx |-> None, reads |-> 0]

CtJSON == M1("Content-Type", ContentTypeApplicationJSON)
CtForm == M1("Content-Type", ContentTypeFormURLEncoded)
Page1 == M1("page", "1")
Id123 == M1("id", "123")

\* the requests a client can send; the router fills muxVars and leaves
\* pathValue empty
WireRequests ==
    {Request("GET", EmptyMap, Page1, EmptyMap, EmptyMap, ""),
     Request("GET", EmptyMap, EmptyMap, EmptyMap, EmptyMap, ""),
     Request("GET", EmptyMap, Page1, EmptyMap, Id123, ""),
     Request("DELETE", EmptyMap, EmptyMap, EmptyMap, EmptyMap, ""),
     Request("POST", EmptyMap, EmptyMap, EmptyMap, EmptyMap, BodyLogin),
     Request("POST", Merge(CtJSON, M1("X-Request-Id", "abc")), Page1, EmptyMap, EmptyMap, BodyLogin),
     Request("POST", Merge(CtJSON, M1("X-Request-Id", "")), Page1, EmptyMap, EmptyMap, BodyLogin),
     Request("POST", Merge(CtJSON, M1("X-Request-Id", "abc")), EmptyMap, EmptyMap, EmptyMap, BodyLogin)}
    \cup {Request("POST", CtJSON, EmptyMap, EmptyMap, EmptyMap, b) :
            b \in {BodyLogin, BodyEmptyName, BodyNoName, BodyBadJSON, BodyProfile}}
    \cup {Request("GET", M1("X-Token", v), EmptyMap, EmptyMap, EmptyMap, "") :
            v \in {BadPattern, "abc"}}
    \cup {Request("POST", CtForm, EmptyMap, EmptyMap, EmptyMap, b) :
            b \in {BodyForm, BodyFormNoUser, BodyFormBadEscape}}

\* requests built by hand, as a caller of Match and Build can
DirectRequests ==
    WireRequests
    \cup {Request("GET", EmptyMap, Page1, Id123, Id123, ""),
          Request("GET", EmptyMap, Page1, M1("id", "abc"), M1("id", "abc"), ""),
          Request("GET", EmptyMap, EmptyMap, Id123, Id123, "")}

NoRequest == Request("", EmptyMap, EmptyMap, EmptyMap, EmptyMap, "")

(***************************************************************************)
(* BuildRoutes, Server.Start                                               *)
(***************************************************************************)
\* BuildRoutes: per declared method, the (matcher, builder) pairs held in a
\* Go map keyed by the matcher; the pair of rule i is named by i, and the map
\* keeps no order among its pairs
BuildRoutes(t) ==
    LET methods == {MatchRequestOf(t, i).MustMethod : i \in RuleIds(t)}
    IN [mth \in methods |-> {i \in RuleIds(t) : MatchRequestOf(t, i).MustMethod = mth}]

\* Server.Start registers one route per method key, "" as GET; the router
\* serves a request with the first registered route of its method
RouteMethod(m) == IF m = "" THEN "GET" ELSE m
RouteKeys(t, method) == {m \in DOMAIN BuildRoutes(t) : RouteMethod(m) = method}

(***************************************************************************)
(* State                                                                   *)
(***************************************************************************)
VARIABLES
    tpl,        \* the template the server loaded (index in Templates)
    req,        \* the request in hand
    pc,         \* "idle", "matching", "building", "done"; "api" for direct calls
    hkey,       \* the method key of the handler that serves the request
    visited,    \* the rules findMatches has tried and left
    selected,   \* the rule whose builder findMatches returned, 0 if none
    w,          \* the response writer: status, headers, body
    builds,     \* the Build calls for the request, in order: rule and error
    matchLog,   \* the Match calls on the request, in order
    buildLog,   \* the results of the direct Build calls, in order
    rule,       \* the rule under direct call, 0 in a served run
    served,     \* requests the server has finished
    bodyLog,    \* the direct calls of a body matcher on the request, in order
    expected,   \* the pattern under direct calls of Compare
    cmp,        \* the last direct call of Compare: its arguments and answer
    rules,      \* per rule, the matcher and the builder template BuildRoutes made
    handles,    \* the files Build has opened that nobody has closed
    conc,       \* the requests in flight when the server handles several at once
    plog        \* the process logger and the handlers that are inside Log

vars == <<tpl, req, pc, hkey, visited, selected, w, builds, matchLog, buildLog, rule, served,
          bodyLog, expected, cmp, rules, handles, conc, plog>>

NoBody == [kind |-> "none"]
TextBody(s) == [kind |-> "text", s |-> s]
JSONBody(v) == [kind |-> "json", v |-> v]
FileBody(name) == [kind |-> "file", name |-> name]
NewWriter == [status |-> 0, header |-> EmptyMap, body |-> NoBody]

\* http.Error with the status code left out: the message goes out under the
\* implicit 200
HttpError_ImplicitOK(rw, msg, code) ==
    [status |-> 200,
     header |-> Merge(M2("Content-Type", "text/plain; charset=utf-8",
                         "X-Content-Type-Options", "nosniff"), rw.header),
     body |-> TextBody(msg)]

\* http.Error
HttpError(rw, msg, code) ==
    [status |-> code,
     header |-> Merge(M2("Content-Type", "text/plain; charset=utf-8",
                         "X-Content-Type-Options", "nosniff"), rw.header),
     body |-> TextBody(msg)]

\* what BuildRoutes holds for each rule: the request matcher and the template
\* of the response builder
RulesOf(t) ==
    [i \in RuleIds(t) |-> [matcher |-> MatcherOf(t, i), templResp |-> SetResponseOf(t, i)]]

\* no process logger in the run
NoLogger == [on |-> FALSE]

\* no call of Compare yet
NoCompare == [called |-> FALSE]

\* one Match call as the log keeps it: the rule, the request before and
\* after, the answer, the facet matchers that ran
MatchEntry(i, before, m) ==
    [rule |-> i, before |-> before, after |-> m.req, res |-> m.res, trace |-> m.trace]

(***************************************************************************)
(* Handler.ServeHTTP                                                       *)
(***************************************************************************)
InitCommon ==
    /\ tpl \in Loaded
    /\ hkey = ""
    /\ visited = {}
    /\ selected = 0
    /\ w = NewWriter
    /\ builds = <<>>
    /\ matchLog = <<>>
    /\ buildLog = <<>>
    /\ served = 0
    /\ bodyLog = <<>>
    /\ expected = Nil
    /\ cmp = NoCompare
    /\ rules = RulesOf(tpl)
    /\ handles = 0
    /\ conc = <<>>
    /\ plog = NoLogger

Init ==
    /\ InitCommon
    /\ req = NoRequest
    /\ pc = "idle"
    /\ rule = 0

\* the router has a route for the request: ServeHTTP starts; buildLogRequest
\* reads the body and puts the same bytes back
Receive(r) ==
    /\ pc = "idle"
    /\ served < MaxRequests
    /\ \E k \in RouteKeys(tpl, r.method) :
        /\ hkey' = k
        /\ req' = r
        /\ pc' = "matching"
        /\ visited' = {}
        /\ selected' = 0
        /\ w' = NewWriter
        /\ builds' = <<>>
        /\ matchLog' = <<>>
    /\ UNCHANGED <<tpl, buildLog, rule, served,
                 bodyLog, expected, cmp, rules, handles, conc, plog>>

\* the router has no route for the method of the request
RouterReject(r) ==
    /\ pc = "idle"
    /\ served < MaxRequests
    /\ RouteKeys(tpl, r.method) = {}
    /\ req' = r
    /\ pc' = "done"
    /\ w' = [NewWriter EXCEPT !.status = 405]
    /\ visited' = {}
    /\ selected' = 0
    /\ builds' = <<>>
    /\ matchLog' = <<>>
    /\ UNCHANGED <<tpl, hkey, buildLog, rule, served,
                 bodyLog, expected, cmp, rules, handles, conc, plog>>

\* findMatches, one turn of its loop: the range over the map yields any pair
\* not yet seen
FindMatchesStep ==
    /\ pc = "matching"
    /\ \E i \in BuildRoutes(tpl)[hkey] \ visited :
        LET m == RequestMatcher_Match(rules[i].matcher, req)
        IN /\ req' = m.req
           /\ matchLog' = Append(matchLog, MatchEntry(i, req, m))
           /\ IF m.res
              THEN /\ selected' = i
                   /\ pc' = "building"
                   /\ visited' = visited
              ELSE /\ visited' = visited \cup {i}
                   /\ UNCHANGED <<selected, pc>>
    /\ UNCHANGED <<tpl, hkey, w, builds, buildLog, rule, served,
                 bodyLog, expected, cmp, rules, handles, conc, plog>>

\* findMatches returned nil
NotFound ==
    /\ pc = "matching"
    /\ BuildRoutes(tpl)[hkey] \ visited = {}
    /\ w' = HttpError(w, "not found", 404)
    /\ pc' = "done"
    /\ UNCHANGED <<tpl, req, hkey, visited, selected, builds, matchLog, buildLog, rule, served,
                 bodyLog, expected, cmp, rules, handles, conc, plog>>

\* the file handles a Build result holds open: os.Open succeeded and the
\* file went into the response; neither Build nor ServeHTTP calls Close, and
\* http.ServeFile opens the file by name for itself
Opened(b) == IF b.err = "" /\ b.response.SetFile.ok THEN 1 ELSE 0

\* json.Marshal of a rendered body: the values of this model all encode
MarshalOk(v) == TRUE

\* what ServeHTTP writes for a response Build returned
WriteResponse(rw, response) ==
    LET h == Merge(response.SetHeaders, rw.header)
        status == IF response.SetStatus # 0 THEN response.SetStatus ELSE 200
    IN IF response.SetFile.ok
       THEN [status |-> status,
             header |-> Merge(M1("Content-Disposition",
                                 "attachment; filename=" \o response.SetFile.v), h),
             body |-> FileBody(response.SetFile.v)]
       ELSE IF response.SetBody.ok
       THEN IF MarshalOk(response.SetBody.v)
            THEN [status |-> status,
                  header |-> Merge(M1("Content-Type", "application/json"), h),
                  body |-> JSONBody(response.SetBody.v)]
            ELSE HttpError([rw EXCEPT !.header = h], "failed prepare response", 500)
       ELSE [status |-> status, header |-> h, body |-> NoBody]

\* ServeHTTP with the template's headers set on the writer before Build is
\* called
BuildAndWrite_HeadersFirst ==
    /\ pc = "building"
    /\ \E b \in ResponseBuilder_Build(rules[selected].templResp, req) :
        /\ req' = b.req
        /\ w' = LET hw == [w EXCEPT !.header = SetResponseOf(tpl, selected).SetHeaders]
                IN IF b.err # "" THEN HttpError(hw, "failed prepare response", 500)
                   ELSE WriteResponse(hw, b.response)
        /\ builds' = Append(builds, [rule |-> selected, err |-> b.err])
        /\ handles' = handles + Opened(b)
    /\ pc' = "done"
    /\ UNCHANGED <<tpl, hkey, visited, selected, matchLog, buildLog, rule, served,
                 bodyLog, expected, cmp, rules, conc, plog>>

\* ServeHTTP on a Build that hands out its own template instead of a fresh
\* SetResponse: the default status ServeHTTP stores in the response lands in
\* the rule
BuildAndWrite_DefaultsTemplate ==
    /\ pc = "building"
    /\ \E b \in ResponseBuilder_Build(rules[selected].templResp, req) :
        /\ req' = b.req
        /\ w' = IF b.err # "" THEN HttpError(w, "failed prepare response", 500)
                ELSE WriteResponse(w, b.response)
        /\ builds' = Append(builds, [rule |-> selected, err |-> b.err])
        /\ handles' = handles + Opened(b)
        /\ rules' = IF b.err = "" /\ rules[selected].templResp.SetStatus = 0
                    THEN [rules EXCEPT ![selected].templResp.SetStatus = 200]
                    ELSE rules
    /\ pc' = "done"
    /\ UNCHANGED <<tpl, hkey, visited, selected, matchLog, buildLog, rule, served,
                 bodyLog, expected, cmp, conc, plog>>

\* Build on the builder findMatches returned, and the answer written
BuildAndWrite ==
    /\ pc = "building"
    /\ \E b \in ResponseBuilder_Build(rules[selected].templResp, req) :
        /\ req' = b.req
        /\ w' = IF b.err # "" THEN HttpError(w, "failed prepare response", 500)
                ELSE WriteResponse(w, b.response)
        /\ builds' = Append(builds, [rule |-> selected, err |-> b.err])
        /\ handles' = handles + Opened(b)
    /\ pc' = "done"
    /\ UNCHANGED <<tpl, hkey, visited, selected, matchLog, buildLog, rule, served,
                 bodyLog, expected, cmp, rules, conc, plog>>

\* ServeHTTP has returned; the server waits for the next request
Return ==
    /\ pc = "done"
    /\ pc' = "idle"
    /\ served' = served + 1
    /\ UNCHANGED <<tpl, req, hkey, visited, selected, w, builds, matchLog, buildLog, rule,
                 bodyLog, expected, cmp, rules, handles, conc, plog>>

\* ServeHTTP drops the *os.File of a file response without Close; once the
\* answer is written nothing refers to it, and the runtime's finalizer may
\* close it at any later moment, or never
Finalize ==
    /\ pc \in {"done", "idle"}
    /\ handles > 0
    /\ handles' = handles - 1
    /\ UNCHANGED <<tpl, req, pc, hkey, visited, selected, w, builds, matchLog, buildLog, rule,
                   served, bodyLog, expected, cmp, rules, conc, plog>>

Next ==
    \/ \E r \in WireRequests : Receive(r)
    \/ \E r \in WireRequests : RouterReject(r)
    \/ FindMatchesStep
    \/ NotFound
    \/ BuildAndWrite
    \/ Return
    \/ Finalize

Spec == Init /\ [][Next]_vars

(***************************************************************************)
(* Direct calls of Match and Build on one request, as a test makes them    *)
(***************************************************************************)
InitAPI ==
    /\ InitCommon
    /\ rule \in RuleIds(tpl)
    /\ req \in DirectRequests
    /\ pc = "api"

CallMatch ==
    /\ pc = "api"
    /\ Len(matchLog) + Len(buildLog) + Len(bodyLog) < MaxCalls
    /\ LET m == RequestMatcher_Match(rules[rule].matcher, req)
       IN /\ req' = m.req
          /\ matchLog' = Append(matchLog, MatchEntry(rule, req, m))
    /\ UNCHANGED <<tpl, pc, hkey, visited, selected, w, builds, buildLog, rule, served,
                 bodyLog, expected, cmp, rules, handles, conc, plog>>

CallBuild ==
    /\ pc = "api"
    /\ Len(matchLog) + Len(buildLog) + Len(bodyLog) < MaxCalls
    /\ \E b \in ResponseBuilder_Build(rules[rule].templResp, req) :
        /\ req' = b.req
        /\ buildLog' = Append(buildLog, [err |-> b.err, response |-> b.response])
        /\ handles' = handles + Opened(b)
    /\ UNCHANGED <<tpl, pc, hkey, visited, selected, w, builds, matchLog, rule, served,
                 bodyLog, expected, cmp, rules, conc, plog>>

\* the body matcher of the rule, called on its own
CallBodyMatch ==
    /\ pc = "api"
    /\ Len(matchLog) + Len(buildLog) + Len(bodyLog) < MaxCalls
    /\ \E k \in 1..Len(rules[rule].matcher) :
        LET pm == rules[rule].matcher[k]
            m == BodyMatcher_Match(pm.h, pm.m, req)
        IN /\ pm.kind = "body"
           /\ req' = m.req
           /\ bodyLog' = Append(bodyLog, [rule |-> rule, before |-> req, after |-> m.req, res |-> m.res])
    /\ UNCHANGED <<tpl, pc, hkey, visited, selected, w, builds, matchLog, buildLog, rule, served,
                 expected, cmp, rules, handles, conc, plog>>

NextAPI == CallMatch \/ CallBuild \/ CallBodyMatch

SpecAPI == InitAPI /\ [][NextAPI]_vars

(***************************************************************************)
(* Direct calls of Comparer.Compare                                        *)
(***************************************************************************)
Age30 == M1("age", VInt(30))
Age30f == M1("age", VFlt(300))

\* the patterns and the values Compare is called with
CompareValues ==
    {VInt(30), VFlt(300), VFlt(305), VIntHi(1), VIntHi(2), VFltHi(0), VFltHi(20),
     VStr("bob"), VStr(AnyValuePlaceholder), VRe("^[a-z]+$"), VBool(TRUE), Nil,
     VMap(EmptyMap), VMap(Age30), VMap(Age30f),
     VMap(Merge(Age30f, M1("name", VStr("bob")))),
     VMap(M1("user", VMap(Age30))),
     VMap(M1("user", VMap(Merge(Age30f, M1("name", VStr("bob")))))),
     VMap(M2("user", VMap(Age30f), "name", VStr("bob"))),
     VMap(M2("user", VMap(Merge(Age30f, M1("name", VStr("bob")))), "name", VStr("bob"))),
     VList(<<VInt(30)>>), VList(<<VFlt(300)>>), VList(<<VFlt(300), VStr("bob")>>)}

InitCompare ==
    /\ tpl = 1
    /\ hkey = ""
    /\ visited = {}
    /\ selected = 0
    /\ w = NewWriter
    /\ builds = <<>>
    /\ matchLog = <<>>
    /\ buildLog = <<>>
    /\ served = 0
    /\ bodyLog = <<>>
    /\ rule = 0
    /\ req = NoRequest
    /\ pc = "compare"
    /\ expected \in CompareValues
    /\ cmp = NoCompare
    /\ rules = <<>>
    /\ handles = 0
    /\ conc = <<>>
    /\ plog = NoLogger

\* Compare(expected, actual)
CallCompare(actual) ==
    /\ pc = "compare"
    /\ cmp' = [called |-> TRUE, expected |-> expected, actual |-> actual,
               res |-> Compare(expected, actual)]
    /\ UNCHANGED <<tpl, req, pc, hkey, visited, selected, w, builds, matchLog, buildLog, rule,
                   served, bodyLog, expected, rules, handles, conc, plog>>

NextCompare == \E actual \in CompareValues : CallCompare(actual)

SpecCompare == InitCompare /\ [][NextCompare]_vars

(***************************************************************************)
(* Requests served concurrently: net/http runs ServeHTTP of the one        *)
(* Handler on a goroutine per connection, each with its own *http.Request  *)
(***************************************************************************)
MaxInFlight == 2
Slots == 1..MaxInFlight

\* the requests the concurrent clients send to the path
ConcRequests ==
    {Request("POST", CtJSON, EmptyMap, EmptyMap, EmptyMap, BodyLogin),
     Request("POST", CtJSON, EmptyMap, EmptyMap, EmptyMap, BodyNoName),
     Request("POST", CtForm, EmptyMap, EmptyMap, EmptyMap, BodyForm),
     Request("GET", EmptyMap, Page1, EmptyMap, EmptyMap, "")}

\* a goroutine of the server before its request arrives
IdleSlot ==
    [pc |-> "idle", req |-> NoRequest, recv |-> NoRequest, hkey |-> "", visited |-> {},
     selected |-> 0, w |-> NewWriter]

InitConc ==
    /\ tpl \in Loaded
    /\ hkey = ""
    /\ visited = {}
    /\ selected = 0
    /\ w = NewWriter
    /\ builds = <<>>
    /\ matchLog = <<>>
    /\ buildLog = <<>>
    /\ served = 0
    /\ bodyLog = <<>>
    /\ expected = Nil
    /\ cmp = NoCompare
    /\ rule = 0
    /\ req = NoRequest
    /\ pc = "conc"
    /\ rules = RulesOf(tpl)
    /\ handles = 0
    /\ conc = [s \in Slots |-> IdleSlot]
    /\ plog = NoLogger

\* ServeHTTP starts on goroutine s
ConcReceive(s, r) ==
    /\ pc = "conc"
    /\ conc[s].pc = "idle"
    /\ \E k \in RouteKeys(tpl, r.method) :
        conc' = [conc EXCEPT ![s] = [IdleSlot EXCEPT !.pc = "matching", !.req = r, !.recv = r,
                                                     !.hkey = k]]
    /\ UNCHANGED <<tpl, req, pc, hkey, visited, selected, w, builds, matchLog, buildLog, rule,
                   served, bodyLog, expected, cmp, rules, handles, plog>>

\* the router has no route for the method of the request of goroutine s
ConcRouterReject(s, r) ==
    /\ pc = "conc"
    /\ conc[s].pc = "idle"
    /\ RouteKeys(tpl, r.method) = {}
    /\ conc' = [conc EXCEPT ![s] = [IdleSlot EXCEPT !.pc = "done", !.req = r, !.recv = r,
                                                    !.w = [NewWriter EXCEPT !.status = 405]]]
    /\ UNCHANGED <<tpl, req, pc, hkey, visited, selected, w, builds, matchLog, buildLog, rule,
                   served, bodyLog, expected, cmp, rules, handles, plog>>

\* one turn of findMatches on goroutine s, were the decoded body kept in one
\* place for all requests: the body another request left there is compared
ConcFindMatchesStep_SharedCache(s) ==
    /\ pc = "conc"
    /\ conc[s].pc = "matching"
    /\ \E i \in BuildRoutes(tpl)[conc[s].hkey] \ conc[s].visited :
        \E o \in Slots :
            LET seen == IF conc[o].req.ctx.ok
                        THEN [conc[s].req EXCEPT !.ctx = conc[o].req.ctx]
                        ELSE conc[s].req
                m == RequestMatcher_Match(rules[i].matcher, seen)
            IN conc' = [conc EXCEPT ![s] =
                            IF m.res
                            THEN [@ EXCEPT !.req = m.req, !.selected = i, !.pc = "building"]
                            ELSE [@ EXCEPT !.req = m.req, !.visited = @ \cup {i}]]
    /\ UNCHANGED <<tpl, req, pc, hkey, visited, selected, w, builds, matchLog, buildLog, rule,
                   served, bodyLog, expected, cmp, rules, handles, plog>>

\* one turn of findMatches on goroutine s: Match reads the rules and the
\* request of s, and caches the decoded body in the context of that request
ConcFindMatchesStep(s) ==
    /\ pc = "conc"
    /\ conc[s].pc = "matching"
    /\ \E i \in BuildRoutes(tpl)[conc[s].hkey] \ conc[s].visited :
        LET m == RequestMatcher_Match(rules[i].matcher, conc[s].req)
        IN conc' = [conc EXCEPT ![s] =
                        IF m.res
                        THEN [@ EXCEPT !.req = m.req, !.selected = i, !.pc = "building"]
                        ELSE [@ EXCEPT !.req = m.req, !.visited = @ \cup {i}]]
    /\ UNCHANGED <<tpl, req, pc, hkey, visited, selected, w, builds, matchLog, buildLog, rule,
                   served, bodyLog, expected, cmp, rules, handles, plog>>

\* findMatches returned nil on goroutine s
ConcNotFound(s) ==
    /\ pc = "conc"
    /\ conc[s].pc = "matching"
    /\ BuildRoutes(tpl)[conc[s].hkey] \ conc[s].visited = {}
    /\ conc' = [conc EXCEPT ![s].w = HttpError(@, "not found", 404), ![s].pc = "done"]
    /\ UNCHANGED <<tpl, req, pc, hkey, visited, selected, w, builds, matchLog, buildLog, rule,
                   served, bodyLog, expected, cmp, rules, handles, plog>>

\* Build and the answer written on goroutine s
ConcBuildAndWrite(s) ==
    /\ pc = "conc"
    /\ conc[s].pc = "building"
    /\ \E b \in ResponseBuilder_Build(rules[conc[s].selected].templResp, conc[s].req) :
        /\ conc' = [conc EXCEPT
                        ![s].req = b.req,
                        ![s].w = IF b.err # "" THEN HttpError(@, "failed prepare response", 500)
                                 ELSE WriteResponse(@, b.response),
                        ![s].pc = "done"]
        /\ handles' = handles + Opened(b)
    /\ UNCHANGED <<tpl, req, pc, hkey, visited, selected, w, builds, matchLog, buildLog, rule,
                   served, bodyLog, expected, cmp, rules, plog>>

NextConc ==
    \/ \E s \in Slots, r \in ConcRequests : ConcReceive(s, r)
    \/ \E s \in Slots, r \in ConcRequests : ConcRouterReject(s, r)
    \/ \E s \in Slots : ConcFindMatchesStep(s)
    \/ \E s \in Slots : ConcNotFound(s)
    \/ \E s \in Slots : ConcBuildAndWrite(s)

SpecConc == InitConc /\ [][NextConc]_vars

(***************************************************************************)
(* ProcessLogger: the one logger main creates, called by every ServeHTTP   *)
(* The file system is taken to be healthy: Close, Stat, Create and Write   *)
(* succeed and Write writes all of p                                       *)
(***************************************************************************)
MaxLoggers == 2
MaxLogs == 3
\* maxSize, in units of the smallest entry
maxSize == 3
Loggers == 1..MaxLoggers

\* len(p) of the entries MarshalIndent produces, up to one too large for a
\* file
EntryLens == 1..(maxSize + 1)

\* the log directory at start: the sizes of the files requests.N.log that
\* earlier runs left, by N
LogDirs == {EmptyMap, M1(0, 2), M2(0, 2, 2, maxSize), M1(1, 1)}

\* rotate: the first index from 0 on without a file, created empty
rotate(files) ==
    LET newIndex == CHOOSE n \in 0..Cardinality(DOMAIN files) :
                        /\ n \notin DOMAIN files
                        /\ \A k \in 0..(n - 1) : k \in DOMAIN files
    IN [files |-> Merge(M1(newIndex, 0), files), fileIndex |-> newIndex, currentSize |-> 0]

\* NewProcessLogger on directory dir
NewProcessLogger(dir) ==
    [on |-> TRUE, files |-> rotate(dir).files, fileIndex |-> rotate(dir).fileIndex,
     currentSize |-> 0, mu |-> 0,
     g |-> [l \in Loggers |-> [pc |-> "idle", len |-> 0]],
     calls |-> 0, oversize |-> FALSE, rotations |-> 0]

InitLog ==
    /\ tpl = 1
    /\ hkey = ""
    /\ visited = {}
    /\ selected = 0
    /\ w = NewWriter
    /\ builds = <<>>
    /\ matchLog = <<>>
    /\ buildLog = <<>>
    /\ served = 0
    /\ bodyLog = <<>>
    /\ expected = Nil
    /\ cmp = NoCompare
    /\ rule = 0
    /\ req = NoRequest
    /\ pc = "log"
    /\ rules = <<>>
    /\ handles = 0
    /\ conc = <<>>
    /\ \E dir \in LogDirs : plog = NewProcessLogger(dir)

\* Log called on goroutine l: MarshalIndent gives p of n bytes
LogMarshal(l, n) ==
    /\ pc = "log"
    /\ plog.g[l].pc = "idle"
    /\ plog.calls < MaxLogs
    /\ plog' = [plog EXCEPT !.g[l] = [pc |-> "lock", len |-> n],
                            !.calls = @ + 1,
                            !.oversize = @ \/ n > maxSize]
    /\ UNCHANGED <<tpl, req, pc, hkey, visited, selected, w, builds, matchLog, buildLog, rule,
                   served, bodyLog, expected, cmp, rules, handles, conc>>

\* Log entered without inst.mu
LogLock_NoMutex(l) ==
    /\ pc = "log"
    /\ plog.g[l].pc = "lock"
    /\ plog' = [plog EXCEPT !.mu = l, !.g[l].pc = "check"]
    /\ UNCHANGED <<tpl, req, pc, hkey, visited, selected, w, builds, matchLog, buildLog, rule,
                   served, bodyLog, expected, cmp, rules, handles, conc>>

\* inst.mu.Lock()
LogLock(l) ==
    /\ pc = "log"
    /\ plog.g[l].pc = "lock"
    /\ plog.mu = 0
    /\ plog' = [plog EXCEPT !.mu = l, !.g[l].pc = "check"]
    /\ UNCHANGED <<tpl, req, pc, hkey, visited, selected, w, builds, matchLog, buildLog, rule,
                   served, bodyLog, expected, cmp, rules, handles, conc>>

\* the size check, and rotate when the entry does not fit
LogCheck(l) ==
    /\ pc = "log"
    /\ plog.g[l].pc = "check"
    /\ plog' = IF plog.currentSize + plog.g[l].len > maxSize
               THEN LET r == rotate(plog.files)
                    IN [plog EXCEPT !.files = r.files, !.fileIndex = r.fileIndex,
                                    !.currentSize = r.currentSize,
                                    !.rotations = @ + 1, !.g[l].pc = "write"]
               ELSE [plog EXCEPT !.g[l].pc = "write"]
    /\ UNCHANGED <<tpl, req, pc, hkey, visited, selected, w, builds, matchLog, buildLog, rule,
                   served, bodyLog, expected, cmp, rules, handles, conc>>

\* inst.currentFile.Write(p)
LogWrite(l) ==
    /\ pc = "log"
    /\ plog.g[l].pc = "write"
    /\ plog' = [plog EXCEPT !.files[plog.fileIndex] = @ + plog.g[l].len, !.g[l].pc = "add"]
    /\ UNCHANGED <<tpl, req, pc, hkey, visited, selected, w, builds, matchLog, buildLog, rule,
                   served, bodyLog, expected, cmp, rules, handles, conc>>

\* inst.currentSize += int64(n)
LogAdd(l) ==
    /\ pc = "log"
    /\ plog.g[l].pc = "add"
    /\ plog' = [plog EXCEPT !.currentSize = @ + plog.g[l].len, !.g[l].pc = "unlock"]
    /\ UNCHANGED <<tpl, req, pc, hkey, visited, selected, w, builds, matchLog, buildLog, rule,
                   served, bodyLog, expected, cmp, rules, handles, conc>>

\* the deferred inst.mu.Unlock()
LogUnlock(l) ==
    /\ pc = "log"
    /\ plog.g[l].pc = "unlock"
    /\ plog' = [plog EXCEPT !.mu = 0, !.g[l] = [pc |-> "idle", len |-> 0]]
    /\ UNCHANGED <<tpl, req, pc, hkey, visited, selected, w, builds, matchLog, buildLog, rule,
                   served, bodyLog, expected, cmp, rules, handles, conc>>

NextLog ==
    \/ \E l \in Loggers, n \in EntryLens : LogMarshal(l, n)
    \/ \E l \in Loggers : LogLock(l)
    \/ \E l \in Loggers : LogCheck(l)
    \/ \E l \in Loggers : LogWrite(l)
    \/ \E l \in Loggers : LogAdd(l)
    \/ \E l \in Loggers : LogUnlock(l)

SpecLog == InitLog /\ [][NextLog]_vars

TypeOK ==
    /\ tpl \in 1..Len(Templates)
    /\ pc \in {"idle", "matching", "building", "done", "api", "compare", "conc", "log"}
    /\ selected \in 0..2
    /\ served \in 0..MaxRequests

(***************************************************************************)
(* Properties                                                              *)
(***************************************************************************)
\* the request as ServeHTTP received it
Received == matchLog[1].before
Last(q) == q[Len(q)]
Handled == pc = "done" /\ Len(matchLog) > 0
TplIndex(t) == CHOOSE k \in 1..Len(Templates) : Templates[k] = t

\* the rule of the serving handler declared first among those whose Match
\* accepts the request as received, 0 if none
EarliestMatching ==
    LET ok == {i \in BuildRoutes(tpl)[hkey] : RequestMatcher_Match(MatcherOf(tpl, i), Received).res}
    IN IF ok = {} THEN 0 ELSE CHOOSE i \in ok : \A j \in ok : i <= j

\* C1: the builder findMatches returns is the one of the earliest declared
\* rule whose Match accepts the request
C1_FirstDeclaredMatchWins ==
    (pc \in {"building", "done"} /\ Len(matchLog) > 0 /\ selected # 0) => selected = EarliestMatching

Range(q) == {q[k] : k \in 1..Len(q)}
Rank(phase) ==
    CASE phase = "idle" -> 0
      [] phase = "matching" -> 1
      [] phase = "building" -> 2
      [] phase = "done" -> 3
      [] OTHER -> 4

\* the state half of C2
C2_Outcome ==
    /\ pc = "matching" => builds = <<>> /\ selected = 0 /\ w = NewWriter
    /\ pc = "building" =>
        /\ builds = <<>> /\ w = NewWriter
        /\ selected # 0 /\ Last(matchLog).rule = selected /\ Last(matchLog).res
    /\ Handled =>
        IF selected = 0
        THEN /\ w.status = 404
             /\ builds = <<>>
             /\ \A k \in 1..Len(matchLog) : ~matchLog[k].res
             /\ \A i \in BuildRoutes(tpl)[hkey] : \E k \in 1..Len(matchLog) : matchLog[k].rule = i
        ELSE /\ Len(builds) = 1
             /\ builds[1].rule = selected
             /\ Last(matchLog).rule = selected /\ Last(matchLog).res
             /\ builds[1].err # "" => w.status = 500 /\ w.body = TextBody("failed prepare response")
             /\ builds[1].err = "" =>
                  /\ w.status = (IF SetResponseOf(tpl, selected).SetStatus # 0
                                 THEN SetResponseOf(tpl, selected).SetStatus ELSE 200)
                  /\ w.body.kind # "text"

\* the step half of C2
C2_Step ==
    /\ pc' # "idle" => Rank(pc') >= Rank(pc)
    /\ pc' = "idle" => pc \in {"idle", "done"}
    /\ pc = "done" => w' = w /\ builds' = builds
    /\ Len(builds') <= 1

\* C2: a request ServeHTTP handles ends in exactly one of 404 (no matcher
\* matched), 500 (Build failed) or the rendered response, its phases never go
\* back, and Build runs at most once, on the builder of the matcher that
\* answered true
C2_OneTerminalOutcome == [](C2_Outcome) /\ [][C2_Step]_vars

\* a request answered with a rendered response after an earlier rule was tried
\* and left
C2_Witness ==
    /\ Handled /\ selected # 0 /\ visited # {}
    /\ Len(builds) = 1 /\ builds[1].err = "" /\ w.status = 200

\* C3: when the body matcher of the selected rule has read the JSON body and
\* the rule's SetBody holds "${req.body:username}", Build succeeds and the
\* rendered username is the username field of the request body
C3_BodyPlaceholderAfterBodyMatch ==
    (/\ Handled /\ selected # 0
     /\ "body" \in Range(Last(matchLog).trace)
     /\ HeaderGet(Received, "Content-Type") = ContentTypeApplicationJSON
     /\ SetResponseOf(tpl, selected).SetBody.ok
     /\ "username" \in DOMAIN SetResponseOf(tpl, selected).SetBody.v
     /\ SetResponseOf(tpl, selected).SetBody.v["username"] = VStr("${req.body:username}"))
    => /\ builds[1].err = ""
       /\ w.body.kind = "json"
       /\ w.body.v["username"] = JsonUnmarshal(Received.body).v["username"]

\* C4: on one request, every Match call of a matcher answers the same and
\* every Build call of a builder returns the same response or the same error
C4_RepeatedCallsAgree ==
    /\ \A a, b \in 1..Len(matchLog) : matchLog[a].res = matchLog[b].res
    /\ \A a, b \in 1..Len(buildLog) : buildLog[a] = buildLog[b]

\* the decoded body of a request as received, by its Content-Type
DecodedBody(r) ==
    IF HeaderGet(r, "Content-Type") = ContentTypeFormURLEncoded
    THEN LET pf == ParseForm(r).req.postForm.v IN [key \in DOMAIN pf |-> VStr(pf[key])]
    ELSE JsonUnmarshal(r.body).v

\* C5: while the rules of a request are matched, its body stream is read at
\* most once, and the cached structure is the decoded body
C5_BodyReadAtMostOnce ==
    (pc \in {"matching", "building"} /\ Len(matchLog) > 0) =>
        /\ req.reads <= 1
        /\ req.ctx.ok => req.ctx.v = DecodedBody(Received)

\* the conditions of rule i of template t, by category, precompiled
Conditions(t, i, facet) ==
    LET mr == MatchRequestOf(t, i)
    IN CASE facet = "path" -> precompileRegexp(mr.MustPathParameters)
         [] facet = "headers" -> precompileRegexp(mr.MustHeaders)
         [] facet = "body" -> precompileRegexp(mr.MustBody)
         [] facet = "query" -> precompileRegexp(mr.MustQueryParameters)

\* the answer of one facet matcher of rule i on request r, taken alone
FacetResult(t, i, facet, r) ==
    CASE facet = "path" -> PathMatcher_Match(Conditions(t, i, "path"), r)
      [] facet = "headers" -> HeadersMatcher_Match(Conditions(t, i, "headers"), r)
      [] facet = "query" -> QueryMatcher_Match(Conditions(t, i, "query"), r)
      [] facet = "body" ->
            BodyMatcher_Match(Conditions(t, i, "headers"), Conditions(t, i, "body"), r).res

Categories == {"path", "headers", "body", "query"}
Declared(t, i) == {facet \in Categories : DOMAIN Conditions(t, i, facet) # {}}

\* C6: Match answers true iff every facet matcher of a category the rule
\* declares answers true on the request; a rule that declares none matches
C6_MatchIsConjunction ==
    \A k \in 1..Len(matchLog) :
        LET e == matchLog[k]
        IN /\ e.res = (\A facet \in Declared(tpl, e.rule) : FacetResult(tpl, e.rule, facet, e.before))
           /\ Declared(tpl, e.rule) = {} => e.res

\* a Match that answered true after three facet matchers ran
C6_Witness ==
    \E k \in 1..Len(matchLog) :
        matchLog[k].res /\ Cardinality(Declared(tpl, matchLog[k].rule)) >= 3

FixedOrder == <<"path", "headers", "body", "query">>
IsPrefix(a, b) == Len(a) <= Len(b) /\ SubSeq(b, 1, Len(a)) = a
RECURSIVE FirstRuns(_)
\* a trace with the repeated runs of a facet matcher left out
FirstRuns(q) ==
    IF q = <<>> THEN <<>>
    ELSE LET h == FirstRuns(SubSeq(q, 1, Len(q) - 1))
         IN IF Last(q) \in Range(h) THEN h ELSE Append(h, Last(q))

FacetValue(facet, r, key) ==
    CASE facet = "headers" -> HeaderGet(r, key)
      [] facet = "query" -> QueryGet(r, key)
      [] facet = "path" -> PathValue(r, key)

\* C8: for headers, query and path, a declared name whose value is absent or
\* empty makes Match answer false, the wildcard included; with every declared
\* value present the answer is Compare(pattern, value) on each
C8_PresenceBeforeCompare ==
    \A k \in 1..Len(matchLog) :
        LET e == matchLog[k]
            three == {"headers", "query", "path"}
            missing == \E facet \in three : \E key \in DOMAIN Conditions(tpl, e.rule, facet) :
                           FacetValue(facet, e.before, key) = ""
        IN /\ missing => ~e.res
           /\ (~missing /\ "body" \notin Declared(tpl, e.rule)) =>
                e.res = (\A facet \in three : \A key \in DOMAIN Conditions(tpl, e.rule, facet) :
                            Compare(Conditions(tpl, e.rule, facet)[key],
                                    VStr(FacetValue(facet, e.before, key))))

\* a header declared with the wildcard, sent with an empty value, and refused
C8_Witness ==
    \E k \in 1..Len(matchLog) :
        LET e == matchLog[k]
        IN /\ ~e.res
           /\ \E key \in DOMAIN Conditions(tpl, e.rule, "headers") :
                /\ Conditions(tpl, e.rule, "headers")[key] = VStr(AnyValuePlaceholder)
                /\ CanonicalMIMEHeaderKey(key) \in DOMAIN e.before.header
                /\ HeaderGet(e.before, key) = ""

\* C9: a body field declared with the wildcard matches only a decoded body
\* that holds the field with a non-empty value
C9_BodyWildcardNeedsValue ==
    \A k \in 1..Len(matchLog) :
        LET e == matchLog[k]
            mb == Conditions(tpl, e.rule, "body")
        IN \A key \in DOMAIN mb :
            (/\ mb[key] = VStr(AnyValuePlaceholder)
             /\ e.after.ctx.ok
             /\ \/ key \notin DOMAIN e.after.ctx.v
                \/ e.after.ctx.v[key] = VStr(""))
            => ~e.res

\* the form conditions a rule file declares under MustFormParameters
FormConditions(t, i) == Field(Templates[t].Handle[i].MatchRequest, "MustFormParameters")

\* every declared form name has a non-empty form value that Compare accepts
FormAccepted(t, i, r) ==
    \A key \in DOMAIN FormConditions(t, i) :
        LET actual == Get(ParseForm(r).req.postForm.v, key)
        IN actual # "" /\ Compare(precompileValue(FormConditions(t, i)[key]), VStr(actual))

\* C10: a rule that declares form conditions matches a request only if every
\* declared name has a present, non-empty form value that Compare accepts,
\* and a rule that declares nothing else matches every such request
C10_FormConditionsDecideMatch ==
    \A k \in 1..Len(matchLog) :
        LET e == matchLog[k]
        IN DOMAIN FormConditions(tpl, e.rule) # {} =>
            /\ e.res => FormAccepted(tpl, e.rule, e.before)
            /\ (Declared(tpl, e.rule) = {} /\ FormAccepted(tpl, e.rule, e.before)) => e.res

\* ServeHTTP has finished a request for which findMatches returned nil
NoRuleMatched ==
    /\ Handled
    /\ selected = 0
    /\ \A k \in 1..Len(matchLog) : ~matchLog[k].res

\* C11: when no rule of the handler matches, the answer is status 404 with an
\* empty body, and no builder has been invoked
C11_NotFoundEmptyBody ==
    NoRuleMatched => (w.status = 404 /\ w.body = NoBody /\ builds = <<>>)

\* ServeHTTP has finished a request whose Build returned an error
BuildFailed == Handled /\ builds # <<>> /\ Last(builds).err # ""

\* C12: when Build returns an error the answer is status 500 with the fixed
\* message only: the error text is not in it, no header of the template is on
\* the response, and nothing of a rendered body
C12_BuildErrorGeneric500 ==
    BuildFailed =>
        /\ w.status = 500
        /\ w.body = TextBody("failed prepare response")
        /\ w.body # TextBody(Last(builds).err)
        /\ \A key \in DOMAIN SetResponseOf(tpl, selected).SetHeaders : key \notin DOMAIN w.header
        /\ DOMAIN w.header = {"Content-Type", "X-Content-Type-Options"}
        /\ w.header["Content-Type"] = "text/plain; charset=utf-8"

\* a failed Build on a rule whose template sets headers
C12_Witness ==
    BuildFailed /\ DOMAIN SetResponseOf(tpl, selected).SetHeaders # {}

RECURSIVE Placeholders(_)
\* the <<facet, name>> pairs of the render-side placeholders in a template
\* body, at any depth of nested mappings
Placeholders(f) ==
    UNION {LET v == f[key]
           IN CASE v.t = "str" ->
                     LET ph == RegexpResponseValuePlaceholder(v.s)
                     IN IF ph = <<>> THEN {} ELSE {<<ph[3], ph[4]>>}
                [] v.t = "map" -> Placeholders(v.f)
                [] OTHER -> {} :
           key \in DOMAIN f}

\* the request holds no value for the name in the facet
NoValue(ph, r) ==
    CASE ph[1] = "headers" -> CanonicalMIMEHeaderKey(ph[2]) \notin DOMAIN r.header
      [] ph[1] = "query" -> ph[2] \notin DOMAIN r.query
      [] ph[1] = "path" -> ph[2] \notin DOMAIN r.muxVars
      [] ph[1] = "form" -> FormValue(r, ph[2]).val = ""
      [] ph[1] = "body" -> LET js == JsonUnmarshal(r.body)
                           IN ~js.err /\ ph[2] \notin DOMAIN js.v

\* the placeholders of the selected rule's body that the request received
\* cannot resolve
Unresolved ==
    LET sr == SetResponseOf(tpl, selected)
    IN IF sr.SetBody.ok THEN {ph \in Placeholders(sr.SetBody.v) : NoValue(ph, Received)} ELSE {}

\* C13: when a placeholder of the body template has no value in the request,
\* Build returns an error and the answer is 500, not a rendered body
C13_UnresolvedPlaceholderFails ==
    (Handled /\ builds # <<>> /\ Unresolved # {}) =>
        (Last(builds).err # "" /\ w.status = 500 /\ w.body.kind # "json")

\* the body of the request cannot be decoded: the Content-Type is missing or
\* is neither of the two supported ones, or the bytes do not parse under it
BodyUnusable(r) ==
    LET ct == HeaderGet(r, "Content-Type")
    IN \/ ct \notin {ContentTypeApplicationJSON, ContentTypeFormURLEncoded}
       \/ ct = ContentTypeApplicationJSON /\ JsonUnmarshal(r.body).err
       \/ ct = ContentTypeFormURLEncoded /\ ParseQuery(r.body).err

\* C14: a rule with body conditions answers false to a request whose body is
\* unparsable or whose Content-Type is missing or unsupported, and the
\* handler tries every remaining rule before it answers 404
C14_UndecodableBodyIsNonMatch ==
    /\ \A k \in 1..Len(matchLog) :
            ("body" \in Declared(tpl, matchLog[k].rule) /\ BodyUnusable(Received))
                => ~matchLog[k].res
    /\ (Handled /\ w.status = 404) => visited = BuildRoutes(tpl)[hkey]

\* the request as it arrives: nothing read, parsed or cached yet
Fresh(r) == r.reads = 0 /\ ~r.ctx.ok /\ ~r.postForm.ok /\ ~r.form.ok

\* the body of a fresh request decoded under a content type: the top-level
\* fields of the JSON object, or the values of the URL-encoded form
Decode(ct, r) ==
    IF ct = ContentTypeApplicationJSON THEN JsonUnmarshal(r.body)
    ELSE LET pq == ParseQuery(IF r.method \in {"POST", "PUT", "PATCH"} THEN r.body ELSE "")
         IN [err |-> pq.err, v |-> [key \in DOMAIN pq.v |-> VStr(pq.v[key])]]

\* the answer the body conditions of rule i give on the body of r decoded
\* under ct
DecodedAnswer(t, i, ct, r) ==
    /\ ct \in {ContentTypeApplicationJSON, ContentTypeFormURLEncoded}
    /\ ~Decode(ct, r).err
    /\ Compare(VMap(Conditions(t, i, "body")), VMap(Decode(ct, r).v))

RECURSIVE SubsetMatch(_, _)
\* every key of e is in a, with values that match: by SubsetMatch again where
\* both are mappings, by Compare elsewhere
SubsetMatch(e, a) ==
    \A key \in DOMAIN e :
        /\ key \in DOMAIN a
        /\ IF e[key].t = "map" /\ a[key].t = "map"
           THEN SubsetMatch(e[key].f, a[key].f)
           ELSE Compare(e[key], a[key])

RECURSIVE AddsOnlyUnmentioned(_, _, _)
\* the mapping b is the mapping a with keys added, at any depth, that the
\* pattern e does not mention
AddsOnlyUnmentioned(e, a, b) ==
    /\ DOMAIN a \subseteq DOMAIN b
    /\ \A key \in DOMAIN b \ DOMAIN a : key \notin DOMAIN e
    /\ \A key \in DOMAIN a :
        \/ a[key] = b[key]
        \/ /\ a[key].t = "map" /\ b[key].t = "map"
           /\ AddsOnlyUnmentioned(IF key \in DOMAIN e /\ e[key].t = "map" THEN e[key].f ELSE EmptyMap,
                                  a[key].f, b[key].f)

C16_Subset ==
    (cmp.called /\ cmp.expected.t = "map" /\ cmp.actual.t = "map") =>
        cmp.res = SubsetMatch(cmp.expected.f, cmp.actual.f)

C16_Step ==
    (/\ cmp.called /\ cmp'.called
     /\ cmp.expected.t = "map" /\ cmp.actual.t = "map" /\ cmp'.actual.t = "map"
     /\ cmp.actual # cmp'.actual
     /\ AddsOnlyUnmentioned(cmp.expected.f, cmp.actual.f, cmp'.actual.f))
    => cmp'.res = cmp.res

\* C16: on mappings Compare(E, A) is true iff every key of E is in A with a
\* value that matches, at every depth, and keys added to A that E does not
\* mention leave the answer as it was
C16_MapSubsetMatch == [](C16_Subset) /\ [][C16_Step]_vars

\* a nested pattern matched a mapping that has keys the pattern lacks, at
\* both depths
C16_Witness ==
    /\ cmp.called /\ cmp.res
    /\ cmp.expected = VMap(M1("user", VMap(Age30)))
    /\ cmp.actual = VMap(M2("user", VMap(Merge(Age30f, M1("name", VStr("bob")))), "name", VStr("bob")))

\* the two numbers have the same numeric value
NumericEqual(x, y) ==
    LET Tenths(v) == IF v.t = "int" THEN v.n * 10 ELSE v.m
    IN x.h = y.h /\ Tenths(x) = Tenths(y)

\* C17: Compare on an integer and a floating-point value is true exactly
\* when their numeric values are equal, in both argument orders
C17_NumericCrossType ==
    (cmp.called /\ {cmp.expected.t, cmp.actual.t} = {"int", "float"}) =>
        cmp.res = NumericEqual(cmp.expected, cmp.actual)

\* the conditions of rule i of template t as the rule file declares them
RawConditions(t, i, facet) ==
    LET mr == MatchRequestOf(t, i)
    IN CASE facet = "path" -> mr.MustPathParameters
         [] facet = "headers" -> mr.MustHeaders
         [] facet = "body" -> mr.MustBody
         [] facet = "query" -> mr.MustQueryParameters

\* a string of the form ${regexp:<pattern>} whose pattern does not compile
Uncompilable(v) ==
    /\ v.t = "str"
    /\ RegexpRequestValuePlaceholder(v.s) # <<>>
    /\ ~CompileOk(RegexpRequestValuePlaceholder(v.s)[3])

\* C18: a pattern that does not compile never stops NewRequestMatcher: the
\* matcher is built, holds the entry as the string the rule file has, and
\* Match accepts for it only a request value identical to that string
C18_BadPatternStaysLiteral ==
    /\ \A i \in RuleIds(tpl) : \A facet \in Categories :
        /\ DOMAIN Conditions(tpl, i, facet) = DOMAIN RawConditions(tpl, i, facet)
        /\ \A key \in DOMAIN RawConditions(tpl, i, facet) :
            Uncompilable(RawConditions(tpl, i, facet)[key])
                => Conditions(tpl, i, facet)[key] = RawConditions(tpl, i, facet)[key]
    /\ \A k \in 1..Len(matchLog) :
        LET e == matchLog[k]
            raw == RawConditions(tpl, e.rule, "headers")
        IN \A key \in DOMAIN raw :
            Uncompilable(raw[key]) => (e.res => HeaderGet(e.before, key) = raw[key].s)

\* Match ran on a rule with a pattern that does not compile: it accepted the
\* request that carries the pattern's own text
C18_Witness ==
    \E k \in 1..Len(matchLog) :
        LET e == matchLog[k]
            raw == RawConditions(tpl, e.rule, "headers")
        IN /\ e.res
           /\ \E key \in DOMAIN raw : Uncompilable(raw[key]) /\ HeaderGet(e.before, key) = raw[key].s

RECURSIVE AllCompiled(_, _)
\* held is the declared value with every compilable ${regexp:<pattern>}
\* string, at any depth of mappings and sequences, replaced by the compiled
\* expression, and everything else as declared
AllCompiled(declared, held) ==
    CASE declared.t = "str" ->
            LET ph == RegexpRequestValuePlaceholder(declared.s)
            IN IF ph # <<>> /\ CompileOk(ph[3]) THEN held = VRe(ph[3]) ELSE held = declared
      [] declared.t = "map" ->
            /\ held.t = "map"
            /\ DOMAIN held.f = DOMAIN declared.f
            /\ \A key \in DOMAIN declared.f : AllCompiled(declared.f[key], held.f[key])
      [] declared.t = "list" ->
            /\ held.t = "list"
            /\ Len(held.q) = Len(declared.q)
            /\ \A j \in 1..Len(declared.q) : AllCompiled(declared.q[j], held.q[j])
      [] OTHER -> held = declared

\* C19: the matcher Match runs on holds every compilable ${regexp:<pattern>}
\* string of the rule's conditions as a compiled expression, at the top
\* level, inside nested mappings and inside sequences, and every other value
\* as declared
C19_EveryPatternCompiled ==
    \A k \in 1..Len(matchLog) : \A facet \in Categories :
        AllCompiled(VMap(RawConditions(tpl, matchLog[k].rule, facet)),
                    VMap(Conditions(tpl, matchLog[k].rule, facet)))

\* C20: a template body with no string that matches the render-side grammar,
\* at any depth, renders without error to a body equal to the template body
C20_PlainBodyUnchanged ==
    \A k \in 1..Len(buildLog) :
        LET sr == SetResponseOf(tpl, rule)
        IN (sr.SetBody.ok /\ Placeholders(sr.SetBody.v) = {}) =>
            /\ buildLog[k].err = ""
            /\ buildLog[k].response.SetBody = Some(sr.SetBody.v)

\* the rules of the template that serve the method, with GET for a rule that
\* declares none
CandidatesFor(method) ==
    {i \in RuleIds(tpl) : RouteMethod(MatchRequestOf(tpl, i).MustMethod) = method}

\* the rules among a set that match the request received
MatchingAmong(among) ==
    {i \in among : RequestMatcher_Match(MatcherOf(tpl, i), Received).res}

\* C21: a rule without MustMethod is a GET rule: the handler that serves a
\* request tries the rules that declare its method together with, for GET,
\* the rules that declare none, and a request that only one of them matches
\* is answered by that rule
C21_AbsentMethodIsGet ==
    Handled =>
        /\ BuildRoutes(tpl)[hkey] = CandidatesFor(Received.method)
        /\ \A i \in CandidatesFor(Received.method) :
            MatchingAmong(CandidatesFor(Received.method)) = {i} => selected = i

\* the rule file declares a body and a file for rule i of template t
DeclaresBoth(t, i) ==
    LET obj == Templates[t].Handle[i].SetResponse
    IN "SetBody" \in DOMAIN obj /\ "SetFile" \in DOMAIN obj /\ obj["SetFile"] # ""

\* C22: a template that declares SetBody and SetFile together is rejected at
\* load and no builder is made of it, and no response Build returns has a
\* body and a file
C22_BodyXorFile ==
    /\ \A i \in RuleIds(tpl) : ~DeclaresBoth(tpl, i)
    /\ \A k \in 1..Len(buildLog) :
        ~(buildLog[k].response.SetBody.ok /\ buildLog[k].response.SetFile.ok)

\* a rule file that declares both was refused, and Build returned a file
\* response for a loaded one
C22_Witness ==
    /\ \E t \in 1..Len(Templates) : t \notin Loaded /\ DeclaresBoth(t, 1)
    /\ \E k \in 1..Len(buildLog) : buildLog[k].err = "" /\ buildLog[k].response.SetFile.ok

\* the status the rule file declares for rule i of template t, 200 if none
DeclaredStatus(t, i) ==
    LET obj == Templates[t].Handle[i].SetResponse
    IN IF "SetStatus" \in DOMAIN obj THEN obj["SetStatus"] ELSE 200

\* C23: the response of a matched rule goes out with the status its rule
\* file declares under SetStatus, and with 200 when it declares none
C23_DeclaredStatusSent ==
    (Handled /\ builds # <<>> /\ Last(builds).err = "") => w.status = DeclaredStatus(tpl, selected)

\* the body conditions a rule file declares under the key MustBody
DocBodyConditions(t, i) == Field(Templates[t].Handle[i].MatchRequest, "MustBody")

\* C24: body conditions written under the key MustBody constrain the rule: it
\* matches only a request whose decoded body satisfies them
C24_MustBodyKeyConstrains ==
    \A k \in 1..Len(matchLog) :
        LET e == matchLog[k]
            mb == DocBodyConditions(tpl, e.rule)
            ct == HeaderGet(e.before, "Content-Type")
        IN (DOMAIN mb # {} /\ Fresh(e.before) /\ e.res) =>
            /\ ct \in {ContentTypeApplicationJSON, ContentTypeFormURLEncoded}
            /\ ~Decode(ct, e.before).err
            /\ Compare(VMap(precompileRegexp(mb)), VMap(Decode(ct, e.before).v))

\* C25: after any sequence of handled requests every rule, its matcher's
\* precompiled patterns and its builder's template (status, headers, body
\* template, file path), is what rule loading produced
C25_RulesNeverModified == rules = RulesOf(tpl)

\* a second request is being handled after one whose answer was built from a
\* template that declares no status, the case where ServeHTTP stores the
\* default status in the response
C25_Witness ==
    /\ served >= 1
    /\ Handled
    /\ builds # <<>>
    /\ Last(builds).err = ""
    /\ rules[selected].templResp.SetStatus = 0
    /\ w.status = 200


\* the path conditions of rule i are met by the variables the router
\* extracted for request r
RouterVarsAccepted(t, i, r) ==
    \A key \in DOMAIN Conditions(t, i, "path") :
        /\ Get(r.muxVars, key) # ""
        /\ Compare(Conditions(t, i, "path")[key], VStr(Get(r.muxVars, key)))

\* the names v whose placeholder ${req.path:v} stands at field key of the
\* body template of rule i
PathPlaceholderAt(t, i, key) ==
    {v \in DOMAIN Received.muxVars :
        SetResponseOf(t, i).SetBody[key] = VStr("${req.path:" \o v \o "}")}

\* C27: on a request the router dispatched, a rule whose path conditions
\* accept the values the router extracted, and whose other declared facets
\* accept the request, matches; and a rendered ${req.path:v} equals the
\* value the router extracted for v
C27_RouterPathValueSeen ==
    /\ \A k \in 1..Len(matchLog) :
        LET e == matchLog[k]
        IN (/\ "path" \in Declared(tpl, e.rule)
            /\ RouterVarsAccepted(tpl, e.rule, e.before)
            /\ \A facet \in Declared(tpl, e.rule) \ {"path"} :
                    FacetResult(tpl, e.rule, facet, e.before)) => e.res
    /\ (Handled /\ builds # <<>> /\ Last(builds).err = "" /\ w.body.kind = "json") =>
            \A key \in DOMAIN SetResponseOf(tpl, selected).SetBody :
                \A v \in PathPlaceholderAt(tpl, selected, key) :
                    w.body.v[key] = VStr(Received.muxVars[v])


\* C28: whenever the headers matcher accepts the request's Content-Type
\* under the declared pattern, literal, wildcard or regular expression, and
\* that content type is JSON or URL-encoded form, the body matcher answers
\* Compare(body pattern, decoded body)
C28_HeadersAndBodyAgree ==
    \A k \in 1..Len(bodyLog) :
        LET e == bodyLog[k]
            mh == Conditions(tpl, e.rule, "headers")
            actual == HeaderGet(e.before, "Content-Type")
        IN (/\ Fresh(e.before)
            /\ "Content-Type" \in DOMAIN mh
            /\ HeadersMatcher_Match(M1("Content-Type", mh["Content-Type"]), e.before)
            /\ actual \in {ContentTypeApplicationJSON, ContentTypeFormURLEncoded})
           => e.res = DecodedAnswer(tpl, e.rule, actual, e.before)


\* C29: every file handle Build opened is closed by the time the request
\* reaches its terminal state: between requests the service holds none
C29_FileHandlesClosed ==
    pc \in {"done", "idle"} => handles = 0


\* the answers ServeHTTP can give to request r, as the handler of method key
\* k holds it after the rules in vis answered false, when it is the only
\* request the server handles
RECURSIVE AloneFrom(_, _, _, _)
AloneFrom(t, k, r, vis) ==
    LET cand == BuildRoutes(t)[k] \ vis
    IN IF cand = {}
       THEN {[selected |-> 0, w |-> HttpError(NewWriter, "not found", 404)]}
       ELSE UNION {LET m == RequestMatcher_Match(MatcherOf(t, i), r)
                   IN IF m.res
                      THEN {[selected |-> i,
                             w |-> IF b.err # ""
                                   THEN HttpError(NewWriter, "failed prepare response", 500)
                                   ELSE WriteResponse(NewWriter, b.response)] :
                                b \in ResponseBuilder_Build(SetResponseOf(t, i), m.req)}
                      ELSE AloneFrom(t, k, m.req, vis \cup {i}) : i \in cand}

AloneOutcomes(t, k, r) ==
    IF RouteKeys(t, r.method) = {}
    THEN {[selected |-> 0, w |-> [NewWriter EXCEPT !.status = 405]]}
    ELSE AloneFrom(t, k, r, {})

\* C26: under any interleaving of concurrent requests, the decoded body a
\* request holds in its cache is the decoding of its own body, and the rule
\* selected for it and the answer written to it are ones ServeHTTP can
\* produce for that request handled alone
C26_RequestsIsolated ==
    \A s \in DOMAIN conc :
        /\ conc[s].req.ctx.ok => conc[s].req.ctx.v = DecodedBody(conc[s].recv)
        /\ conc[s].pc = "done" =>
            [selected |-> conc[s].selected, w |-> conc[s].w]
                \in AloneOutcomes(tpl, conc[s].hkey, conc[s].recv)

\* one request has been answered from a rule its decoded body matched while
\* another request, with another body decoded and cached, is still in
\* flight
C26_Witness ==
    \E s, o \in DOMAIN conc :
        /\ s # o
        /\ conc[s].pc = "done" /\ conc[s].selected # 0 /\ conc[s].req.ctx.ok
        /\ conc[o].pc = "matching" /\ conc[o].req.ctx.ok
        /\ conc[o].req.ctx.v # conc[s].req.ctx.v


\* the bytes a Log call has written to the current file and not yet added
\* to currentSize
Unrecorded(l) == IF plog.g[l].pc = "add" THEN plog.g[l].len ELSE 0
RECURSIVE SumUnrecorded(_)
SumUnrecorded(ls) ==
    IF ls = {} THEN 0
    ELSE LET l == CHOOSE x \in ls : TRUE IN Unrecorded(l) + SumUnrecorded(ls \ {l})

\* currentSize is the size of the current file, but for the Log call that
\* holds the mutex between its Write and its addition; and it stays within
\* maxSize while no entry was larger than maxSize
C30_SizeRecorded ==
    plog.on =>
        /\ plog.currentSize + SumUnrecorded(Loggers) = plog.files[plog.fileIndex]
        /\ plog.mu = 0 => plog.currentSize = plog.files[plog.fileIndex]
        /\ ~plog.oversize => plog.currentSize <= maxSize

\* a rotation switches to an index that had no file and creates it empty;
\* no step makes a file shorter or removes one
C30_Rotation ==
    plog.on =>
        /\ plog'.fileIndex # plog.fileIndex =>
            /\ plog'.fileIndex \notin DOMAIN plog.files
            /\ plog'.files[plog'.fileIndex] = 0
        /\ \A n \in DOMAIN plog.files :
            n \in DOMAIN plog'.files /\ plog'.files[n] >= plog.files[n]

====
